---- MODULE Spec2Model ----
(***************************************************************************)
(* NewsDatabase (src/src/db.py): an in-memory Document Store, a FAISS      *)
(* vector index and the id -> position table doc_id_to_index, persisted    *)
(* as two files (faiss_index.idx, documents.json) under one data_dir.      *)
(*                                                                         *)
(* One action per public operation: the constructor (which runs            *)
(* _load_or_create_index), insert_document and delete_extra.  Each action  *)
(* is the whole call, including the embedding requests, the index rebuild  *)
(* and the _save_index it ends with.  The embedding provider and the disk  *)
(* are the environment: each request and each save draws its outcome.      *)
(*                                                                         *)
(* ContentMaker.run (src/src/content_maker.py), the pipeline over the      *)
(* store, is one action of its own specification, SpecPipeline.            *)
(***************************************************************************)
EXTENDS Integers, Sequences, FiniteSets, TLC

\* ----------------------------------------------------------------- bounds
MaxInserts == 3     \* insert_document calls (uuid4 draws) in one behaviour
MaxTs      == 3     \* instants 1..MaxTs
MaxStr     == 1     \* timestamps given as text: the ISO texts of 1..MaxStr
MaxText    == 1     \* texts 1..MaxText
MaxKeep    == 2     \* delete_extra(max_docs) with max_docs in 0..MaxKeep
MaxSaveFailures == 1 \* saves that fail in one behaviour

\* self.embedding_dim
EmbeddingDim == 1536

Texts    == 1..MaxText
Instants == 1..MaxTs

\* ------------------------------------------------------------- timestamps
\* A timestamp value as Python holds it: a datetime, None, or a str.  A str
\* with v >= 1 is the ISO-8601 text of instant v; the str with v = 0 is a
\* text datetime.fromisoformat rejects (one that sorts before every ISO
\* text, such as "").
Dt(n)    == [k |-> "datetime", v |-> n]
Str(n)   == [k |-> "str", v |-> n]
NoneTs   == [k |-> "none", v |-> 0]
AbsentTs == [k |-> "absent", v |-> 0]

\* what a caller may put under document["timestamp"]
SuppliedTimestamps ==
    {Dt(n) : n \in Instants} \cup {Str(n) : n \in 0..MaxStr} \cup {NoneTs}

\* ts.isoformat()
isoformat(ts) == Str(ts.v)

\* datetime.fromisoformat(ts): the parsed datetime, or a raise
fromisoformat(ts) ==
    IF ts.v >= 1 THEN [raised |-> FALSE, value |-> Dt(ts.v)]
    ELSE [raised |-> TRUE, value |-> ts]

\* a < b of two timestamp values; Python raises TypeError for the pairs
\* that are not Comparable (datetime with str, None with anything)
Comparable(a, b) == a.k = b.k /\ a.k \in {"datetime", "str"}
LessThan(a, b)   == a.v < b.v

\* ---------------------------------------------------------- embeddings
\* What one request to the provider ends in: a vector of embedding_dim
\* floats; an exception inside the try of _get_embedding (the provider is
\* unreachable, or response.data[0].embedding is not there or not numeric);
\* or a vector of another length.
EmbedOutcomes == {"ok", "exception", "wrong_dim"}

NoEmbedding == [some |-> FALSE, dim |-> 0, v |-> 0]

\* the provider's vector for a text: one coordinate, the text's number
EmbedText(text) == text

\* mutant: a failed request answered with a zero vector instead of None
_get_embedding_zero_vector(eo, text) ==
    CASE eo = "ok"        -> [some |-> TRUE, dim |-> EmbeddingDim, v |-> EmbedText(text)]
      [] eo = "wrong_dim" -> [some |-> TRUE, dim |-> 2 * EmbeddingDim, v |-> EmbedText(text)]
      [] OTHER            -> [some |-> TRUE, dim |-> EmbeddingDim, v |-> 0]

\* self._get_embedding(text): the vector, or None after a logged exception
_get_embedding(eo, text) ==
    CASE eo = "ok"        -> [some |-> TRUE, dim |-> EmbeddingDim, v |-> EmbedText(text)]
      [] eo = "wrong_dim" -> [some |-> TRUE, dim |-> 2 * EmbeddingDim, v |-> EmbedText(text)]
      [] OTHER            -> NoEmbedding

\* faiss_index.add(embedding.reshape(1, -1)): the wrapper asserts d == self.d
\* before it appends
faiss_add(index, embedding) ==
    IF embedding.dim = EmbeddingDim
    THEN [raised |-> FALSE, index |-> Append(index, embedding.v)]
    ELSE [raised |-> TRUE, index |-> index]

\* mutant: the position taken as ntotal
index_position_ntotal(index) == Len(index)

\* index_position = self.faiss_index.ntotal - 1
index_position(index) == Len(index) - 1

\* self.doc_id_to_index[doc_id] = index_position
SetItem(map, key, value) ==
    [x \in DOMAIN map \cup {key} |-> IF x = key THEN value ELSE map[x]]

EmptyMap == [x \in {} |-> 0]

\* mutant: an id space of two values
uuid4_two_values(n) == (n % 2) + 1

\* str(uuid.uuid4()) on the n-th draw: a value no earlier draw gave
uuid4(n) == n

\* ------------------------------------------------------------------ disk
MissingFile == [kind |-> "missing", vectors |-> <<>>]
CorruptFile == [kind |-> "corrupt", vectors |-> <<>>]
IndexBlob(index) == [kind |-> "blob", vectors |-> index]

NoDocumentsFile      == [kind |-> "missing", documents |-> <<>>, doc_id_to_index |-> EmptyMap]
CorruptDocumentsFile == [kind |-> "corrupt", documents |-> <<>>, doc_id_to_index |-> EmptyMap]
\* a file that parses as JSON and holds {"documents": null, "doc_id_to_index": {"x": 0}}
NullDocumentsFile ==
    [kind |-> "null_documents", documents |-> <<>>, doc_id_to_index |-> SetItem(EmptyMap, 0, 0)]

\* the copy of one document that _save_index serializes
serializable_doc(doc) ==
    IF doc.timestamp.k = "datetime"
    THEN [doc EXCEPT !.timestamp = isoformat(doc.timestamp)]
    ELSE doc

serializable_docs(docs) == [i \in 1..Len(docs) |-> serializable_doc(docs[i])]

DocumentsJson(docs, map) ==
    [kind |-> "json", documents |-> serializable_docs(docs), doc_id_to_index |-> map]

\* What one _save_index ends in: both files written; write_index fails to
\* open its file; write_index fails after truncating it; open(documents_file,
\* "w") fails; json.dump fails after the file was truncated.
SaveOutcomes ==
    {"ok", "index_open_failed", "index_partial", "docs_open_failed", "docs_partial"}

\* the two files as the try block of _save_index leaves them
written_files(index, docs, map, index_file, documents_file, so) ==
    CASE so = "index_open_failed" ->
            [index_file |-> index_file, documents_file |-> documents_file]
      [] so = "index_partial" ->
            [index_file |-> CorruptFile, documents_file |-> documents_file]
      [] so = "docs_open_failed" ->
            [index_file |-> IndexBlob(index), documents_file |-> documents_file]
      [] so = "docs_partial" ->
            [index_file |-> IndexBlob(index), documents_file |-> CorruptDocumentsFile]
      [] OTHER ->
            [index_file |-> IndexBlob(index), documents_file |-> DocumentsJson(docs, map)]

\* mutant: a save that never writes the index file
_save_index_documents_only(index, docs, map, index_file, documents_file, so) ==
    [index_file     |-> index_file,
     documents_file |-> IF so = "ok" THEN DocumentsJson(docs, map) ELSE documents_file,
     raised         |-> FALSE]

\* mutant: a save put off until after the caller has returned
_save_index_deferred(index, docs, map, index_file, documents_file, so) ==
    [index_file |-> index_file, documents_file |-> documents_file, raised |-> FALSE]

\* mutant: a save whose exceptions are not caught
_save_index_uncaught(index, docs, map, index_file, documents_file, so) ==
    LET w == written_files(index, docs, map, index_file, documents_file, so) IN
    [index_file |-> w.index_file, documents_file |-> w.documents_file,
     raised |-> so # "ok"]

\* mutant: a save that keeps the documents the file holds and memory lacks
_save_index_merging(index, docs, map, index_file, documents_file, so) ==
    LET w    == written_files(index, docs, map, index_file, documents_file, so)
        Kept(d) == \A i \in 1..Len(docs) : docs[i].id # d.id
        both == [w.documents_file EXCEPT
                   !.documents = SelectSeq(documents_file.documents, Kept)
                                   \o w.documents_file.documents]
    IN  [index_file |-> w.index_file,
         documents_file |-> IF so = "ok" THEN both ELSE w.documents_file,
         raised |-> FALSE]

\* mutant: a save that adds the newest document to those the file holds
_save_index_incremental(index, docs, map, index_file, documents_file, so) ==
    LET w      == written_files(index, docs, map, index_file, documents_file, so)
        newest == IF docs = <<>> THEN <<>>
                  ELSE <<serializable_doc(docs[Len(docs)])>>
        added  == [w.documents_file EXCEPT
                     !.documents = documents_file.documents \o newest]
    IN  [index_file |-> w.index_file,
         documents_file |-> IF so = "ok" THEN added ELSE w.documents_file,
         raised |-> FALSE]

\* _save_index(): the two files after it, and whether an exception leaves
\* it; `except Exception` catches and logs every one
_save_index(index, docs, map, index_file, documents_file, so) ==
    LET w == written_files(index, docs, map, index_file, documents_file, so) IN
    [index_file |-> w.index_file, documents_file |-> w.documents_file,
     raised |-> FALSE]

SaveStatus(so) == IF so = "ok" THEN "ok" ELSE "failed"

\* mutant: a load that leaves every timestamp as text
parse_doc_keeps_text(doc) == doc

\* the timestamp loop of _load_or_create_index on one document
parse_doc(doc) ==
    IF doc.timestamp.k = "str" /\ ~fromisoformat(doc.timestamp).raised
    THEN [doc EXCEPT !.timestamp = fromisoformat(doc.timestamp).value]
    ELSE doc

parse_docs(docs) == [i \in 1..Len(docs) |-> parse_doc(docs[i])]

\* What reading the two files ends in, beyond their content: both read, or
\* an I/O error on one of them.
LoadOutcomes == {"ok", "index_unreadable", "documents_unreadable"}

EmptyCache ==
    [documents |-> <<>>, documents_is_none |-> FALSE,
     doc_id_to_index |-> EmptyMap, faiss_index |-> <<>>]

\* the instance after __init__ and _load_or_create_index
_load_or_create_index(index_file, documents_file, lo) ==
    IF index_file.kind = "missing" \/ documents_file.kind = "missing"
    THEN EmptyCache
    ELSE IF index_file.kind = "corrupt" \/ lo = "index_unreadable"
    THEN EmptyCache                      \* read_index raises
    ELSE IF documents_file.kind = "corrupt" \/ lo = "documents_unreadable"
    THEN EmptyCache                      \* open or json.load raises
    ELSE IF documents_file.kind = "null_documents"
    THEN \* self.documents and self.doc_id_to_index are assigned, then
         \* self.documents.values() raises; the except branch falls through
         \* to the new index and leaves the two assignments in place
         [documents |-> <<>>, documents_is_none |-> TRUE,
          doc_id_to_index |-> documents_file.doc_id_to_index,
          faiss_index |-> <<>>]
    ELSE [documents |-> parse_docs(documents_file.documents),
          documents_is_none |-> FALSE,
          doc_id_to_index |-> documents_file.doc_id_to_index,
          faiss_index |-> index_file.vectors]

\* ------------------------------------------------------------------ state
VARIABLES
    constructed,        \* a NewsDatabase instance exists
    documents,          \* self.documents, in insertion order
    documents_is_none,  \* self.documents is None (see _load_or_create_index)
    doc_id_to_index,    \* self.doc_id_to_index
    faiss_index,        \* self.faiss_index: its vectors; ntotal is Len
    index_file,         \* data_dir/faiss_index.idx
    documents_file,     \* data_dir/documents.json
    drawn,              \* uuid4 draws so far
    save_failures,      \* _save_index calls that failed so far
    returned,           \* the ids insert_document has returned so far
    other,              \* a second instance over the same data_dir, not running
    history,            \* what the runs of ContentMaker have done so far
    last                \* the last call: what it was given and how it ended

vars == <<constructed, documents, documents_is_none, doc_id_to_index,
          faiss_index, index_file, documents_file, drawn, save_failures,
          returned, other, history, last>>

ntotal == Len(faiss_index)

DocIds(docs) == {docs[i].id : i \in 1..Len(docs)}

RetNone   == [kind |-> "none", id |-> 0]
RetRaised == [kind |-> "raised", id |-> 0]
RetId(id) == [kind |-> "id", id |-> id]

\* what `last` records of a call
Call(op, ret, outcome, saved, max_docs, calls) ==
    [op |-> op, ret |-> ret, outcome |-> outcome, saved |-> saved,
     max_docs |-> max_docs, calls |-> calls]

\* what `last` records of a delete_extra call that rebuilt the index: the
\* call, and what each embedding request of the rebuild ended in
Rebuilt(call, outs) ==
    [op |-> call.op, ret |-> call.ret, outcome |-> call.outcome,
     saved |-> call.saved, max_docs |-> call.max_docs, calls |-> call.calls,
     outs |-> outs]

\* what the next _save_index may end in
SavesLeft == IF save_failures < MaxSaveFailures THEN SaveOutcomes ELSE {"ok"}

\* no run of ContentMaker yet: the urls create has stored and the urls a
\* publisher has been given
NoRuns == [created |-> {}, published |-> {}]

\* the memory of a process that has constructed no NewsDatabase yet
NoInstance ==
    [constructed |-> FALSE, documents |-> <<>>, documents_is_none |-> FALSE,
     doc_id_to_index |-> EmptyMap, faiss_index |-> <<>>]

\* the data_dir before the first construction
InitialDisks ==
    { [index_file |-> MissingFile, documents_file |-> NoDocumentsFile],
      [index_file |-> IndexBlob(<<1>>), documents_file |-> NullDocumentsFile] }

Init ==
    /\ constructed = FALSE
    /\ documents = <<>>
    /\ documents_is_none = FALSE
    /\ doc_id_to_index = EmptyMap
    /\ faiss_index = <<>>
    /\ \E d \in InitialDisks :
          /\ index_file = d.index_file
          /\ documents_file = d.documents_file
    /\ drawn = 0
    /\ returned = {}
    /\ save_failures = 0
    /\ other = NoInstance
    /\ history = NoRuns
    /\ last = Call("none", RetNone, "none", "none", 0, 0)

\* NewsDatabase(data_dir): a fresh instance over the same files, at start
\* and at every restart of the process
Construct ==
    \E lo \in LoadOutcomes :
       LET m == _load_or_create_index(index_file, documents_file, lo) IN
       /\ constructed' = TRUE
       /\ documents' = m.documents
       /\ documents_is_none' = m.documents_is_none
       /\ doc_id_to_index' = m.doc_id_to_index
       /\ faiss_index' = m.faiss_index
       /\ last' = Call("load", RetNone, lo, "none", 0, 0)
       /\ UNCHANGED <<index_file, documents_file, drawn, save_failures, returned, other, history>>

\* document.get("timestamp", datetime.now())
document_get_timestamp(supplied, now) ==
    IF supplied.k = "absent" THEN Dt(now) ELSE supplied

\* insert_document(document), for a caller whose documents have their text
\* in texts and their timestamp in timestamps, with a provider whose
\* requests end in one of embed_outcomes and a disk whose saves end in one
\* of save_outcomes
insert_document_from(texts, timestamps, embed_outcomes, save_outcomes) ==
    /\ constructed
    /\ drawn < MaxInserts
    /\ \E text \in texts, supplied \in timestamps, eo \in embed_outcomes :
       \E now \in (IF supplied = AbsentTs THEN Instants ELSE {1}),
          so \in (IF eo = "ok" /\ ~documents_is_none THEN save_outcomes ELSE {"ok"}) :
       LET doc_id    == uuid4(drawn + 1)
           document  == [id |-> doc_id, text |-> text,
                         timestamp |-> document_get_timestamp(supplied, now)]
           embedding == _get_embedding(eo, text)
           add       == faiss_add(faiss_index, embedding)
           map1      == SetItem(doc_id_to_index, doc_id, index_position(add.index))
           disk      == _save_index(add.index, Append(documents, document), map1,
                                    index_file, documents_file, so)
       IN
       /\ drawn' = drawn + 1
       /\ save_failures' = save_failures + (IF so = "ok" THEN 0 ELSE 1)
       /\ IF ~embedding.some
          THEN \* the embedding is None: return None
               /\ last' = Call("insert", RetNone, eo, "none", 0, 1)
               /\ UNCHANGED <<documents, doc_id_to_index, faiss_index,
                              index_file, documents_file, returned>>
          ELSE IF documents_is_none
          THEN \* self.documents[doc_id] = ... raises TypeError
               /\ last' = Call("insert", RetRaised, eo, "none", 0, 1)
               /\ UNCHANGED <<documents, doc_id_to_index, faiss_index,
                              index_file, documents_file, returned>>
          ELSE IF add.raised
          THEN \* the document is stored, then faiss_index.add raises
               /\ documents' = Append(documents, document)
               /\ last' = Call("insert", RetRaised, eo, "none", 0, 1)
               /\ UNCHANGED <<doc_id_to_index, faiss_index,
                              index_file, documents_file, returned>>
          ELSE /\ documents' = Append(documents, document)
               /\ faiss_index' = add.index
               /\ doc_id_to_index' = map1
               /\ index_file' = disk.index_file
               /\ documents_file' = disk.documents_file
               /\ IF disk.raised
                  THEN /\ returned' = returned
                       /\ last' = Call("insert", RetRaised, eo, SaveStatus(so), 0, 1)
                  ELSE /\ returned' = returned \cup {doc_id}
                       /\ last' = Call("insert", RetId(doc_id), eo, SaveStatus(so), 0, 1)
       /\ UNCHANGED <<constructed, documents_is_none, other, history>>

\* insert_document(document)
insert_document ==
    insert_document_from(Texts, SuppliedTimestamps \cup {AbsentTs},
                         EmbedOutcomes, SavesLeft)

\* mutant: a sort that orders any two timestamps
sort_never_raises(docs) == FALSE

\* sorted(self.documents.items(), key=timestamp): Python's stable sort,
\* oldest first; it raises TypeError when two keys it has to order are not
\* comparable, which with two or more documents is whenever some pair is not
SortRaises(docs) ==
    \E i, j \in 1..Len(docs) :
        i # j /\ ~Comparable(docs[i].timestamp, docs[j].timestamp)

\* the place of docs[i] in the sorted list
SortedRank(docs, i) ==
    1 + Cardinality({ j \in 1..Len(docs) :
                        \/ LessThan(docs[j].timestamp, docs[i].timestamp)
                        \/ (docs[j].timestamp.v = docs[i].timestamp.v /\ j < i) })

\* mutant: newest first
sorted_docs_newest_first(docs) ==
    [r \in 1..Len(docs) |->
        docs[CHOOSE i \in 1..Len(docs) : SortedRank(docs, i) = Len(docs) + 1 - r]]

sorted_docs(docs) ==
    [r \in 1..Len(docs) |-> docs[CHOOSE i \in 1..Len(docs) : SortedRank(docs, i) = r]]

\* mutant: >= for >
needs_eviction_at_bound(total_docs, max_docs) == total_docs >= max_docs

\* total_docs > max_docs
needs_eviction(total_docs, max_docs) == total_docs > max_docs

\* [doc_id for doc_id, _ in sorted_docs[:to_delete]]
ids_to_delete(docs, to_delete) ==
    { sorted_docs(docs)[r].id : r \in 1..to_delete }

\* the documents left after `del self.documents[doc_id]` for each id
delete_documents(docs, ids) ==
    LET Keep(d) == d.id \notin ids IN SelectSeq(docs, Keep)

\* mutant: the loop ends at the first request that gives no vector
RECURSIVE rebuild_loop_stops(_, _, _, _, _)
rebuild_loop_stops(docs, outs, i, index, map) ==
    IF i > Len(docs)
    THEN [raised |-> FALSE, index |-> index, map |-> map, calls |-> Len(docs)]
    ELSE LET embedding == _get_embedding(outs[i], docs[i].text)
             add       == faiss_add(index, embedding)
         IN  IF ~embedding.some
             THEN [raised |-> FALSE, index |-> index, map |-> map, calls |-> i]
             ELSE IF add.raised
             THEN [raised |-> TRUE, index |-> index, map |-> map, calls |-> i]
             ELSE rebuild_loop_stops(docs, outs, i + 1, add.index,
                                     SetItem(map, docs[i].id, index_position(add.index)))

\* the loop of _rebuild_index over the remaining documents, from document i
\* on: outs[i] is what the request for document i ends in
RECURSIVE rebuild_loop(_, _, _, _, _)
rebuild_loop(docs, outs, i, index, map) ==
    IF i > Len(docs)
    THEN [raised |-> FALSE, index |-> index, map |-> map, calls |-> Len(docs)]
    ELSE LET embedding == _get_embedding(outs[i], docs[i].text)
             add       == faiss_add(index, embedding)
         IN  IF ~embedding.some
             THEN rebuild_loop(docs, outs, i + 1, index, map)
             ELSE IF add.raised
             THEN [raised |-> TRUE, index |-> index, map |-> map, calls |-> i]
             ELSE rebuild_loop(docs, outs, i + 1, add.index,
                               SetItem(map, docs[i].id, index_position(add.index)))

\* mutant: the loop appends to the index that is there
_rebuild_index_keeps_index(docs, outs) ==
    rebuild_loop(docs, outs, 1, faiss_index, EmptyMap)

\* _rebuild_index(): a new index and an empty table, then the loop
_rebuild_index(docs, outs) == rebuild_loop(docs, outs, 1, <<>>, EmptyMap)

\* mutant: a document whose request gave no vector is dropped from the store
rebuilt_documents_indexed_only(docs, outs) ==
    LET Indexed(d) == \E i \in 1..Len(docs) : docs[i] = d /\ outs[i] = "ok"
    IN  SelectSeq(docs, Indexed)

\* self.documents after _rebuild_index: the loop reads it and removes nothing
rebuilt_documents(docs, outs) == docs

\* delete_extra(max_docs), with a provider whose requests end in one of
\* embed_outcomes and a disk whose saves end in one of save_outcomes
delete_extra_from(embed_outcomes, save_outcomes) ==
    /\ constructed
    /\ \E max_docs \in 0..MaxKeep :
       IF documents_is_none
       THEN \* len(self.documents) raises TypeError
            /\ last' = Call("delete_extra", RetRaised, "none", "none", max_docs, 0)
            /\ UNCHANGED <<constructed, documents, documents_is_none, doc_id_to_index,
                           faiss_index, index_file, documents_file, drawn,
                           save_failures, returned, other, history>>
       ELSE IF ~needs_eviction(Len(documents), max_docs)
       THEN /\ last' = Call("delete_extra", RetNone, "none", "none", max_docs, 0)
            /\ UNCHANGED <<constructed, documents, documents_is_none, doc_id_to_index,
                           faiss_index, index_file, documents_file, drawn,
                           save_failures, returned, other, history>>
       ELSE IF SortRaises(documents)
       THEN /\ last' = Call("delete_extra", RetRaised, "none", "none", max_docs, 0)
            /\ UNCHANGED <<constructed, documents, documents_is_none, doc_id_to_index,
                           faiss_index, index_file, documents_file, drawn,
                           save_failures, returned, other, history>>
       ELSE LET to_delete == Len(documents) - max_docs
                remaining == delete_documents(documents,
                                              ids_to_delete(documents, to_delete))
            IN
            \E outs \in [1..Len(remaining) -> embed_outcomes] :
            \E so \in (IF _rebuild_index(remaining, outs).raised
                       THEN {"ok"} ELSE save_outcomes) :
               LET rb   == _rebuild_index(remaining, outs)
                   disk == _save_index(rb.index, remaining, rb.map,
                                       index_file, documents_file, so)
                   asked == [i \in 1..rb.calls |-> outs[i]]
                   embed == IF \A i \in 1..rb.calls : outs[i] = "ok"
                            THEN "ok" ELSE "some_failed"
               IN
               /\ documents' = rebuilt_documents(remaining, outs)
               /\ faiss_index' = rb.index
               /\ doc_id_to_index' = rb.map
               /\ IF rb.raised
                  THEN \* faiss_index.add raises inside the loop: no save
                       /\ last' = Rebuilt(Call("delete_extra", RetRaised, embed,
                                               "none", max_docs, rb.calls), asked)
                       /\ UNCHANGED <<index_file, documents_file>>
                  ELSE /\ index_file' = disk.index_file
                       /\ documents_file' = disk.documents_file
                       /\ last' = Rebuilt(Call("delete_extra",
                                               IF disk.raised THEN RetRaised
                                                              ELSE RetNone,
                                               embed, SaveStatus(so), max_docs,
                                               rb.calls), asked)
               /\ save_failures' = save_failures + (IF so = "ok" THEN 0 ELSE 1)
               /\ UNCHANGED <<constructed, documents_is_none, drawn, returned, other, history>>

\* delete_extra(max_docs)
delete_extra == delete_extra_from(EmbedOutcomes, SavesLeft)

Next == Construct \/ insert_document \/ delete_extra

Spec == Init /\ [][Next]_vars

\* -------------------------------------------------------------- retrieval
MaxSessionText == 2   \* texts 1..MaxSessionText of the documents searched
MaxTopK        == 2   \* search_similar(top_k) with top_k in 0..MaxTopK

SessionTexts == 1..MaxSessionText
\* the texts searched for: one a document may have, one no document has
QueryTexts   == {1, MaxSessionText + 1}

\* similarity_threshold: 0.0, 0.5 and the default 0.8, as fractions
Thresholds == {[num |-> 0, den |-> 1], [num |-> 1, den |-> 2], [num |-> 4, den |-> 5]}

\* the squared L2 distance IndexFlatL2 reports for two vectors
L2Distance(a, b) == (a - b) * (a - b)

\* similarity = 1.0 / (1.0 + distance)
similarity_of(distance) == [num |-> 1, den |-> 1 + distance]

\* similarity >= similarity_threshold
AtLeast(similarity, threshold) ==
    similarity.num * threshold.den >= threshold.num * similarity.den

\* mutant: the k farthest positions, farthest first
faiss_search_farthest_first(index, query_vector, k) ==
    LET Dist(p) == L2Distance(index[p + 1], query_vector)
        Rank(p) == 1 + Cardinality({ o \in 0..(Len(index) - 1) :
                                       \/ Dist(o) > Dist(p)
                                       \/ (Dist(o) = Dist(p) /\ o < p) })
    IN  [j \in 1..k |->
            LET p == CHOOSE o \in 0..(Len(index) - 1) : Rank(o) = j
            IN  [distance |-> Dist(p), index |-> p]]

\* self.faiss_index.search(query_vector, k): the k nearest positions with
\* their distances, nearest first (equal distances in position order)
faiss_search(index, query_vector, k) ==
    LET Dist(p) == L2Distance(index[p + 1], query_vector)
        Rank(p) == 1 + Cardinality({ o \in 0..(Len(index) - 1) :
                                       \/ Dist(o) < Dist(p)
                                       \/ (Dist(o) = Dist(p) /\ o < p) })
    IN  [j \in 1..k |->
            LET p == CHOOSE o \in 0..(Len(index) - 1) : Rank(o) = j
            IN  [distance |-> Dist(p), index |-> p]]

\* mutant: a position found is taken as a place in the Document Store
search_hits_by_store_order(docs, map, found, threshold) ==
    LET Hit(f)    == AtLeast(similarity_of(f.distance), threshold)
        Result(f) == [doc |-> docs[f.index + 1],
                      similarity |-> similarity_of(f.distance),
                      distance |-> f.distance]
        hits      == SelectSeq(found, Hit)
    IN  [j \in 1..Len(hits) |-> Result(hits[j])]

\* the loop over doc_id_to_index.items() for the first id at a position
HasDocIdAt(map, position) == \E did \in DOMAIN map : map[did] = position
DocIdAt(map, position) ==
    CHOOSE did \in DOMAIN map :
        /\ map[did] = position
        /\ \A o \in DOMAIN map : map[o] = position => did <= o

DocWithId(docs, did) == docs[CHOOSE i \in 1..Len(docs) : docs[i].id = did]

\* the results loop of search_similar over what faiss_index.search found
search_hits(docs, map, found, threshold) ==
    LET Hit(f)    == /\ AtLeast(similarity_of(f.distance), threshold)
                     /\ HasDocIdAt(map, f.index)
                     /\ DocIdAt(map, f.index) \in DocIds(docs)
        Result(f) == [doc |-> DocWithId(docs, DocIdAt(map, f.index)),
                      similarity |-> similarity_of(f.distance),
                      distance |-> f.distance]
        hits      == SelectSeq(found, Hit)
    IN  [j \in 1..Len(hits) |-> Result(hits[j])]

Min(a, b) == IF a <= b THEN a ELSE b

\* mutant: the search goes on over an index without entries
index_is_empty_never(n) == FALSE

\* self.faiss_index.ntotal == 0
index_is_empty(n) == n = 0

RetList(list) == [kind |-> "list", id |-> 0, list |-> list]

\* what `last` records of a search_similar call
Searched(ret, outcome, calls, threshold) ==
    [op |-> "search_similar", ret |-> ret, outcome |-> outcome, saved |-> "none",
     max_docs |-> 0, calls |-> calls, threshold |-> threshold]

\* search_similar(query, top_k, similarity_threshold)
search_similar ==
    /\ constructed
    /\ \E eo \in (IF ntotal # 0 THEN EmbedOutcomes ELSE {"ok"}) :
       \E query_text \in (IF ntotal # 0 /\ eo = "ok" THEN QueryTexts ELSE {1}),
          top_k \in (IF ntotal # 0 /\ eo = "ok" THEN 0..MaxTopK ELSE {1}) :
       \E threshold \in (IF ntotal # 0 /\ eo = "ok" /\ top_k > 0
                         THEN Thresholds ELSE {[num |-> 4, den |-> 5]}) :
       LET query_embedding == _get_embedding(eo, query_text)
           k     == Min(top_k, ntotal)
           found == faiss_search(faiss_index, query_embedding.v, k)
       IN
       /\ last' =
            IF index_is_empty(ntotal)
            THEN Searched(RetList(<<>>), "none", 0, threshold)
            ELSE IF ~query_embedding.some
            THEN Searched(RetList(<<>>), eo, 1, threshold)
            ELSE IF query_embedding.dim # EmbeddingDim \/ k <= 0
            THEN \* faiss_index.search asserts d == self.d and k > 0
                 Searched(RetRaised, eo, 1, threshold)
            ELSE Searched(RetList(search_hits(documents, doc_id_to_index,
                                              found, threshold)),
                          eo, 1, threshold)
       /\ UNCHANGED <<constructed, documents, documents_is_none, doc_id_to_index,
                      faiss_index, index_file, documents_file, drawn,
                      save_failures, returned, other, history>>

\* a filter: the keys it lists and the value it asks of each
NoFilter == [keys |-> {}, text |-> 0, timestamp |-> NoneTs]
Filters ==
    {NoFilter}
    \cup {[keys |-> {"link"}, text |-> 0, timestamp |-> NoneTs]}
    \cup {[keys |-> {"text"}, text |-> t, timestamp |-> NoneTs] : t \in SessionTexts}
    \cup {[keys |-> {"timestamp"}, text |-> 0, timestamp |-> Dt(1)]}
    \cup {[keys |-> {"text", "timestamp"}, text |-> t, timestamp |-> Dt(1)] :
             t \in SessionTexts}

\* filter[key], the value the filter asks of the key
Asked(filter, key) == IF key = "text" THEN filter.text ELSE filter.timestamp

\* mutant: a document without the key passes
matches_absent_key(doc, filter) ==
    \A key \in filter.keys : key \notin DOMAIN doc \/ doc[key] = Asked(filter, key)

\* the inner loop of query: no listed key is missing from doc or differs
matches(doc, filter) ==
    \A key \in filter.keys : ~(key \notin DOMAIN doc \/ doc[key] # Asked(filter, key))

\* mutant: the scan misses the document stored last
query_results_but_last(docs, filter) ==
    LET Match(doc) == matches(doc, filter)
    IN  SelectSeq(SubSeq(docs, 1, Len(docs) - 1), Match)

\* the list query(filter) returns
query_results(docs, filter) ==
    LET Match(doc) == matches(doc, filter) IN SelectSeq(docs, Match)

\* what `last` records of a query call
Queried(ret, filter) ==
    [op |-> "query", ret |-> ret, outcome |-> "none", saved |-> "none",
     max_docs |-> 0, calls |-> 0, filter |-> filter]

\* query(filter)
query ==
    /\ constructed
    /\ \E filter \in Filters :
          last' = IF documents_is_none
                  THEN Queried(RetRaised, filter)   \* None has no .items()
                  ELSE Queried(RetList(query_results(documents, filter)), filter)
    /\ UNCHANGED <<constructed, documents, documents_is_none, doc_id_to_index,
                   faiss_index, index_file, documents_file, drawn,
                   save_failures, returned, other, history>>

\* One instance over an empty data_dir for the life of its process, its
\* callers inserting documents without a timestamp of their own, evicting,
\* searching and querying; the saves succeed.
InitSession ==
    /\ constructed = TRUE
    /\ documents = <<>>
    /\ documents_is_none = FALSE
    /\ doc_id_to_index = EmptyMap
    /\ faiss_index = <<>>
    /\ index_file = MissingFile
    /\ documents_file = NoDocumentsFile
    /\ drawn = 0
    /\ returned = {}
    /\ save_failures = 0
    /\ other = NoInstance
    /\ history = NoRuns
    /\ last = Call("load", RetNone, "ok", "none", 0, 0)

insert_in_session ==
    insert_document_from(SessionTexts, {AbsentTs}, EmbedOutcomes, {"ok"})

delete_extra_in_session == delete_extra_from({"ok", "exception"}, {"ok"})

NextSession ==
    insert_in_session \/ delete_extra_in_session \/ search_similar \/ query

SpecSession == InitSession /\ [][NextSession]_vars

\* ---------------------------------------------------------- two processes
\* Two processes, each with its own NewsDatabase over the same data_dir.
\* The variables of the instance are those of the process that runs; the
\* other process's are in `other`, and the scheduler may switch between any
\* two calls: nothing in NewsDatabase locks the files or looks at them
\* after construction.
switch_instance ==
    /\ other' = [constructed |-> constructed, documents |-> documents,
                 documents_is_none |-> documents_is_none,
                 doc_id_to_index |-> doc_id_to_index, faiss_index |-> faiss_index]
    /\ constructed' = other.constructed
    /\ documents' = other.documents
    /\ documents_is_none' = other.documents_is_none
    /\ doc_id_to_index' = other.doc_id_to_index
    /\ faiss_index' = other.faiss_index
    /\ last' = Call("switch", RetNone, "none", "none", 0, 0)
    /\ UNCHANGED <<index_file, documents_file, drawn, save_failures, returned,
                   history>>

\* insert_document by the process that runs, with a provider that answers
insert_by_either == insert_document_from(Texts, {AbsentTs}, {"ok"}, SavesLeft)

NextTwo == Construct \/ insert_by_either \/ switch_instance

SpecTwo == Init /\ [][NextTwo]_vars

\* --------------------------------------------------------------- pipeline
\* ContentMaker.run (src/src/content_maker.py): one pass over the
\* aggregators.  The store it calls is NewsArticle, through has_url, create
\* and evict_excess; src/src/db.py defines no NewsArticle, so the three are
\* the existence check, the insert and the eviction of the cache as spec.md
\* states them, over the Document Store alone (run reads no vector index).
MaxUrl         == 2   \* urls 1..MaxUrl of the items the aggregators give
MaxPoll        == 2   \* items in one polled list
MaxAggregators == 2   \* len(self.aggregators)
MaxPublishers  == 2   \* len(self.publishers)
MaxStored      == 1   \* the bound run gives evict_excess: the 1000 of
                      \* content_maker.py, scaled to fewer than MaxUrl

Urls        == 1..MaxUrl
Aggregators == 1..MaxAggregators
Publishers  == 1..MaxPublishers

\* what aggregator.poll() may return: a list of items, each known by its url
PollLists == UNION { [1..n -> Urls] : n \in 0..MaxPoll }

\* what the aggregators answer in one run; an aggregator after the first
\* one with a non-empty list is not asked by run, and has nothing here
PollChoices ==
    { polls \in [Aggregators -> PollLists] :
        \A a, b \in Aggregators : a < b /\ polls[a] # <<>> => polls[b] = <<>> }

\* NewsArticle.has_url(url): the existence check on the natural key
has_url(docs, url) == \E i \in 1..Len(docs) : docs[i].link = url

\* what NewsArticle.create ends in: the record stored, or a failed insert
\* that stores nothing and raises nothing
CreateOutcomes == {"ok", "failed"}

\* NewsArticle.create(title, url, content, date): the store after it
create(docs, url, date, co) ==
    IF co = "ok"
    THEN Append(docs, [link |-> url, timestamp |-> Dt(date)])
    ELSE docs

\* NewsArticle.evict_excess(max_docs): the store after it, without the
\* excess documents of smallest timestamp (equal ones in stored order)
evict_excess(docs, max_docs) ==
    IF Len(docs) <= max_docs
    THEN docs
    ELSE LET excess == Len(docs) - max_docs
             kept   == { i \in 1..Len(docs) : SortedRank(docs, i) > excess }
             Nth(k) == CHOOSE i \in kept :
                          Cardinality({ j \in kept : j < i }) = k - 1
         IN  [k \in 1..max_docs |-> docs[Nth(k)]]

\* mutant: the loop over the aggregators goes on until a list has a new item
polled_until_new(polls) ==
    IF \E a \in Aggregators : \E i \in 1..Len(polls[a]) : ~has_url(documents, polls[a][i])
    THEN CHOOSE a \in Aggregators :
            /\ \E i \in 1..Len(polls[a]) : ~has_url(documents, polls[a][i])
            /\ \A b \in 1..(a - 1) :
                  \A i \in 1..Len(polls[b]) : has_url(documents, polls[b][i])
    ELSE MaxAggregators

\* `for aggregator in self.aggregators: news = aggregator.poll(); if news:
\* ... break`: the number of aggregators polled, the last of them the first
\* whose list is not empty
polled(polls) ==
    IF \E a \in Aggregators : polls[a] # <<>>
    THEN CHOOSE a \in Aggregators :
            polls[a] # <<>> /\ \A b \in 1..(a - 1) : polls[b] = <<>>
    ELSE MaxAggregators

\* mutant: no existence check, the first item of the list is taken
selected_unchecked(news, docs) == IF news = <<>> THEN 0 ELSE 1

\* mutant: the last item not stored is taken
selected_last(news, docs) ==
    IF \E i \in 1..Len(news) : ~has_url(docs, news[i])
    THEN CHOOSE i \in 1..Len(news) :
            /\ ~has_url(docs, news[i])
            /\ \A j \in (i + 1)..Len(news) : has_url(docs, news[j])
    ELSE 0

\* `for n in news: if has_url(n.url): continue; ...; break`: the place in
\* news of the one item the loop goes through with, 0 when it skips all
selected(news, docs) ==
    IF \E i \in 1..Len(news) : ~has_url(docs, news[i])
    THEN CHOOSE i \in 1..Len(news) :
            /\ ~has_url(docs, news[i])
            /\ \A j \in 1..(i - 1) : has_url(docs, news[j])
    ELSE 0

\* mutant: create without the evict_excess after it
stored_without_eviction(docs, url, date, co, max_docs) ==
    create(docs, url, date, co)

\* NewsArticle.create(...) and NewsArticle.evict_excess(1000), lines 27-30
stored(docs, url, date, co, max_docs) ==
    evict_excess(create(docs, url, date, co), max_docs)

\* mutant: the item is recorded after it was published to every publisher
store_after_item_when_published(docs, url, date, co, max_docs, completed) ==
    IF completed THEN stored(docs, url, date, co, max_docs) ELSE docs

\* the store when run is left after it took an item, whether the summarizer
\* and the publishers then answered or raised: lines 27-30 come before
\* lines 31-33 and nothing undoes them
store_after_item(docs, url, date, co, max_docs, completed) ==
    stored(docs, url, date, co, max_docs)

\* one call run made: what was called, with what (for publish: to whom),
\* and whether it ended well
Called(call, arg, to, ok) == [call |-> call, arg |-> arg, to |-> to, ok |-> ok]

\* the publishers given the summary: all of them, or those before the one
\* that raised
given(fail_at) == IF fail_at = 0 THEN Publishers ELSE 1..(fail_at - 1)

\* the calls of lines 27-33 for one item, in order, up to one that raises
item_calls(url, co, so, fail_at, max_docs) ==
    <<Called("create", url, 0, co = "ok"),
      Called("evict_excess", max_docs, 0, TRUE),
      Called("news_processor.run", url, 0, so = "ok")>>
    \o (IF so = "ok"
        THEN [p \in 1..(IF fail_at = 0 THEN MaxPublishers ELSE fail_at) |->
                 Called("publish", url, p, p # fail_at)]
        ELSE <<>>)

\* the calls of one run, in order
run_calls(polls, n_polled, sel, co, so, fail_at, max_docs) ==
    LET news == polls[n_polled] IN
    [a \in 1..n_polled |-> Called("poll", a, 0, TRUE)]
    \o [i \in 1..(IF sel = 0 THEN Len(news) ELSE sel) |->
           Called("has_url", news[i], 0, TRUE)]
    \o (IF sel = 0 THEN <<>>
        ELSE item_calls(news[sel], co, so, fail_at, max_docs))

\* what `last` records of a run: what the aggregators it polled answered,
\* and the calls it made
Ran(ret, max_docs, polls, trace) ==
    [op |-> "run", ret |-> ret, outcome |-> "none", saved |-> "none",
     max_docs |-> max_docs, calls |-> 0, polls |-> polls, trace |-> trace]

\* ContentMaker.run(), with max_docs for its 1000
run_with(max_docs) ==
    \E polls \in PollChoices :
       LET n_polled == polled(polls)
           news     == polls[n_polled]
           sel      == selected(news, documents)
       IN
       \E date \in (IF sel = 0 THEN {1} ELSE Instants),
          co \in (IF sel = 0 THEN {"ok"} ELSE CreateOutcomes),
          so \in (IF sel = 0 THEN {"ok"} ELSE {"ok", "raises"}) :
       \E fail_at \in (IF sel = 0 \/ so # "ok" THEN {0} ELSE 0..MaxPublishers) :
          LET completed == so = "ok" /\ fail_at = 0
              trace == run_calls(polls, n_polled, sel, co, so, fail_at, max_docs)
          IN
          /\ documents' =
               IF sel = 0 THEN documents
               ELSE store_after_item(documents, news[sel], date, co, max_docs,
                                     completed)
          /\ history' =
               IF sel = 0 THEN history
               ELSE [created   |-> history.created
                                     \cup (IF co = "ok" THEN {news[sel]} ELSE {}),
                     published |-> history.published
                                     \cup (IF so = "ok" /\ given(fail_at) # {}
                                           THEN {news[sel]} ELSE {})]
          /\ last' = Ran(IF completed \/ sel = 0 THEN RetNone ELSE RetRaised,
                         max_docs, [a \in 1..n_polled |-> polls[a]], trace)
          /\ UNCHANGED <<constructed, documents_is_none, doc_id_to_index,
                         faiss_index, index_file, documents_file, drawn,
                         save_failures, returned, other>>

\* ContentMaker.run()
run == run_with(MaxStored)

\* the process of main.py: an empty store, and run again and again
InitPipeline ==
    /\ InitSession
    /\ history = NoRuns

NextPipeline == run

SpecPipeline == InitPipeline /\ [][NextPipeline]_vars

\* ----------------------------------------------------------------- steps
\* the step is a call of insert_document / delete_extra / the constructor
InsertStep    == last'.op = "insert" /\ drawn' = drawn + 1
DeleteStep    == last'.op = "delete_extra" /\ ~documents_is_none
ConstructStep == last'.op = "load"

Max(a, b) == IF a >= b THEN a ELSE b

Positions(map) == { map[d] : d \in DOMAIN map }

\* set(doc_id_to_index.values()) == {0, ..., ntotal-1}, no position twice
Dense(map, n) ==
    /\ Positions(map) = 0..(n - 1)
    /\ Cardinality(DOMAIN map) = n

\* all timestamps can be ordered and no two are equal
DistinctTimestamps(docs) ==
    \A i, j \in 1..Len(docs) :
        i # j => /\ Comparable(docs[i].timestamp, docs[j].timestamp)
                 /\ docs[i].timestamp.v # docs[j].timestamp.v

\* the documents of docs that fewer than n others are newer than
MostRecent(docs, n) ==
    LET Newer(i) == { j \in 1..Len(docs) :
                        LessThan(docs[i].timestamp, docs[j].timestamp) }
        Kept(d)  == \E i \in 1..Len(docs) :
                        docs[i] = d /\ Cardinality(Newer(i)) < n
    IN  SelectSeq(docs, Kept)

\* ------------------------------------------------------------------ C1
\* C1: every insert_document call either adds the document to the store
\* and a vector to the index and an entry to doc_id_to_index, or changes
\* none of the three, whatever the embedding provider answers.
C1_InsertIsAtomic ==
    [][InsertStep =>
         \/ /\ Len(documents') = Len(documents) + 1
            /\ Len(faiss_index') = Len(faiss_index) + 1
            /\ Cardinality(DOMAIN doc_id_to_index')
                 = Cardinality(DOMAIN doc_id_to_index) + 1
         \/ UNCHANGED <<documents, faiss_index, doc_id_to_index>>]_vars

\* ------------------------------------------------------------------ C2
\* C2: when the embedding request fails, insert_document returns None and
\* the documents, the index and doc_id_to_index are what they were.
C2_EmbedFailureChangesNothing ==
    [][InsertStep /\ last'.outcome = "exception" =>
         /\ last'.ret = RetNone
         /\ UNCHANGED <<documents, faiss_index, doc_id_to_index>>]_vars

C2_Witness ==
    /\ last.op = "insert" /\ last.outcome = "exception" /\ last.ret = RetNone
    /\ Len(documents) >= 1 /\ ntotal >= 1

\* ------------------------------------------------------------------ C3
\* C3: a cache constructed over an empty data_dir has the positions of
\* doc_id_to_index equal to {0..ntotal-1} without repeats, and every
\* insert_document and delete_extra call keeps it so, failed embeddings
\* included.
C3_PositionDensity ==
    /\ [](last.op = "load" /\ index_file.kind = "missing"
            => Dense(doc_id_to_index, ntotal))
    /\ [][(InsertStep \/ DeleteStep) /\ Dense(doc_id_to_index, ntotal)
            => Dense(doc_id_to_index', Len(faiss_index'))]_vars

C3_Witness ==
    /\ last.op = "delete_extra" /\ last.outcome = "some_failed"
    /\ ntotal >= 1 /\ Len(documents) > ntotal
    /\ Dense(doc_id_to_index, ntotal)

\* ------------------------------------------------------------------ C4
\* C4: an id insert_document returns was never returned before and is not
\* the id of a document in the store.
C4_ReturnedIdsAreFresh ==
    [][InsertStep /\ last'.ret.kind = "id" =>
         /\ last'.ret.id \notin returned
         /\ last'.ret.id \notin DocIds(documents)]_vars

C4_Witness ==
    /\ last.op = "insert" /\ last.ret.kind = "id"
    /\ Cardinality(returned) = 3 /\ Len(documents) = 1

\* ------------------------------------------------------------------ C5
\* C5: after delete_extra(N) the store holds at most max(N, count before)
\* documents, and when it held more than N, with timestamps that are all
\* distinct, it holds exactly the N documents with the largest timestamps.
C5_EvictionKeepsMostRecent ==
    [][DeleteStep =>
         /\ Len(documents') <= Max(last'.max_docs, Len(documents))
         /\ (Len(documents) > last'.max_docs /\ DistinctTimestamps(documents)
               => /\ Len(documents') = last'.max_docs
                  /\ documents' = MostRecent(documents, last'.max_docs))]_vars

C5_Witness ==
    /\ last.op = "delete_extra" /\ last.max_docs = 2
    /\ Len(documents) = 2 /\ DocIds(documents) = {1, 2}
    /\ returned = {1, 2, 3}
    /\ documents[1].timestamp = Dt(3) /\ documents[2].timestamp = Dt(2)

\* ------------------------------------------------------------------ C6
\* C6: delete_extra(max_docs) with no more than max_docs documents in the
\* store changes neither the documents, doc_id_to_index, the index nor the
\* two files, and asks the provider for no embedding.
C6_NoEvictionIsNoOp ==
    [][DeleteStep /\ Len(documents) <= last'.max_docs =>
         /\ UNCHANGED <<documents, doc_id_to_index, faiss_index,
                        index_file, documents_file>>
         /\ last'.calls = 0]_vars

C6_Witness ==
    /\ last.op = "delete_extra" /\ last.ret = RetNone
    /\ Len(documents) = 2 /\ last.max_docs = 2 /\ ntotal = 2

\* ------------------------------------------------------------------ C7
\* C7: delete_extra returns the number of documents it evicted: 0 when the
\* store holds no more than max_docs, the excess otherwise.
RetCount(n) == [kind |-> "count", id |-> n]

C7_ReturnsEvictedCount ==
    [][DeleteStep /\ last'.ret # RetRaised =>
         last'.ret = RetCount(Max(0, Len(documents) - last'.max_docs))]_vars

\* ------------------------------------------------------------------ C8
\* C8 as claimed: between calls, also after a save that failed part-way,
\* the two files describe the same state: both are there or neither is,
\* both can be read, and the blob's ntotal is the number of entries of the
\* persisted doc_id_to_index.
FilesAgree ==
    /\ (index_file.kind = "missing") = (documents_file.kind = "missing")
    /\ index_file.kind # "corrupt" /\ documents_file.kind # "corrupt"
    /\ Len(index_file.vectors) = Cardinality(DOMAIN documents_file.doc_id_to_index)

C8_FilesAlwaysAgree == FilesAgree

\* C8 as amended: a save that ends without error leaves both files holding
\* the in-memory state of that moment, and as long as no save has failed
\* the two files agree.
C8_FilesAgreeUnlessSaveFailed ==
    /\ last.saved = "ok" =>
          /\ index_file = IndexBlob(faiss_index)
          /\ documents_file = DocumentsJson(documents, doc_id_to_index)
    /\ save_failures = 0 => FilesAgree

C8_Witness ==
    /\ last.saved = "ok" /\ save_failures = 1
    /\ ntotal >= 1 /\ index_file = IndexBlob(faiss_index)

\* ------------------------------------------------------------------ C9
\* C9: a construction that finds a file missing, or fails to read or
\* process one at any step of loading, starts empty: no documents, an
\* empty doc_id_to_index and ntotal = 0.
LoadFails ==
    \/ index_file.kind # "blob"
    \/ documents_file.kind # "json"
    \/ last.outcome # "ok"

C9_FailedLoadStartsEmpty ==
    last.op = "load" /\ LoadFails =>
        /\ documents = <<>> /\ ~documents_is_none
        /\ doc_id_to_index = EmptyMap
        /\ ntotal = 0

Reloaded(ts) == IF ts.k = "str" /\ ts.v >= 1 THEN Dt(ts.v) ELSE ts

C11_SavedBeforeReturn ==
    [][InsertStep /\ last'.ret.kind = "id" /\ last'.saved = "ok" =>
         /\ index_file' = IndexBlob(faiss_index')
         /\ documents_file' = DocumentsJson(documents', doc_id_to_index')
         /\ last'.ret.id \in DocIds(documents_file'.documents)
         /\ last'.ret.id \in DOMAIN documents_file'.doc_id_to_index]_vars

C11_Witness ==
    /\ last.op = "insert" /\ last.ret.kind = "id" /\ last.saved = "ok"
    /\ save_failures = 1 /\ Len(documents) = 2
    /\ last.ret.id \in DocIds(documents_file.documents)
    /\ Len(index_file.vectors) = 2

\* ------------------------------------------------------------------ C12
\* C12: a save that fails during insert_document or during the rebuild of
\* an eviction raises nothing: insert_document returns the new id, and the
\* documents, doc_id_to_index and the index hold the result of the call.
C12_SaveFailureIsSwallowed ==
    [][(InsertStep \/ DeleteStep) /\ last'.saved = "failed" =>
         /\ last'.ret # RetRaised
         /\ last'.op = "insert" =>
               /\ last'.ret.kind = "id"
               /\ Len(documents') = Len(documents) + 1
               /\ documents'[Len(documents')].id = last'.ret.id
               /\ SubSeq(documents', 1, Len(documents)) = documents
               /\ Len(faiss_index') = Len(faiss_index) + 1
               /\ last'.ret.id \in DOMAIN doc_id_to_index'
               /\ doc_id_to_index'[last'.ret.id] = Len(faiss_index') - 1
         /\ last'.op = "delete_extra" =>
               /\ Len(documents') = last'.max_docs
               /\ DOMAIN doc_id_to_index' \subseteq DocIds(documents')
               /\ Dense(doc_id_to_index', Len(faiss_index'))]_vars

C12_Witness ==
    /\ last.op = "delete_extra" /\ last.saved = "failed" /\ last.ret = RetNone
    /\ Len(documents) = 1 /\ ntotal = 1 /\ Cardinality(returned) = 2
    /\ documents_file # DocumentsJson(documents, doc_id_to_index)

\* ------------------------------------------------------------------ C13
\* C13: in the rebuild of an eviction, an embedding request that fails does
\* not stop the rebuild: every surviving document whose request gave a
\* vector is in doc_id_to_index and in the index with that vector, the
\* document whose request failed is in neither, and all of them, the failed
\* one too, are still in the store.
C13_RebuildSkipsFailedEmbedding ==
    [][DeleteStep /\ Len(documents) > last'.max_docs /\ last'.ret # RetRaised =>
         /\ Len(documents') = last'.max_docs
         /\ \A i \in 1..Len(documents') :
               \E j \in 1..Len(documents) : documents[j] = documents'[i]
         /\ Len(last'.outs) = Len(documents')
         /\ \A i \in 1..Len(documents') :
               LET id == documents'[i].id IN
               IF last'.outs[i] = "ok"
               THEN /\ id \in DOMAIN doc_id_to_index'
                    /\ doc_id_to_index'[id] + 1 \in 1..Len(faiss_index')
                    /\ faiss_index'[doc_id_to_index'[id] + 1]
                         = EmbedText(documents'[i].text)
               ELSE id \notin DOMAIN doc_id_to_index'
         /\ Len(faiss_index')
              = Cardinality({i \in 1..Len(documents') : last'.outs[i] = "ok"})]_vars

C13_Witness ==
    /\ last.op = "delete_extra" /\ last.ret = RetNone /\ last.calls = 2
    /\ last.outs = <<"exception", "ok">>
    /\ Len(documents) = 2 /\ ntotal = 1
    /\ DOMAIN doc_id_to_index = {documents[2].id}

\* ------------------------------------------------------------------ C14
\* C14: the list search_similar returns is in descending order of
\* similarity, which is ascending order of distance, each similarity is
\* 1/(1+distance), and each is at least similarity_threshold.
C14_ResultsSortedAboveThreshold ==
    last.op = "search_similar" /\ last.ret.kind = "list" =>
        LET results == last.ret.list IN
        /\ \A j \in 1..Len(results) :
              /\ results[j].similarity = [num |-> 1, den |-> 1 + results[j].distance]
              /\ AtLeast(results[j].similarity, last.threshold)
        /\ \A j, k \in 1..Len(results) :
              j < k => /\ AtLeast(results[j].similarity, results[k].similarity)
                       /\ results[j].distance <= results[k].distance

C14_Witness ==
    /\ last.op = "search_similar" /\ last.ret.kind = "list"
    /\ Len(last.ret.list) = 2
    /\ last.ret.list[1].distance < last.ret.list[2].distance
    /\ last.ret.list[1].doc.id > last.ret.list[2].doc.id
    /\ last.threshold = [num |-> 1, den |-> 2]
    /\ Len(documents) = 3

\* ------------------------------------------------------------------ C15
\* C15: search_similar over an index without entries returns [] and asks
\* the provider for nothing, and search_similar whose embedding request
\* fails returns []; neither raises.
C15_EmptyIndexOrFailedEmbeddingGivesNothing ==
    last.op = "search_similar" =>
        /\ ntotal = 0 => last.ret = RetList(<<>>) /\ last.calls = 0
        /\ last.outcome = "exception" => last.ret = RetList(<<>>)

C15_Witness ==
    /\ last.op = "search_similar" /\ last.outcome = "exception"
    /\ last.calls = 1 /\ last.ret = RetList(<<>>)
    /\ ntotal = 2 /\ Len(documents) = 2

\* ------------------------------------------------------------------ C16
\* C16: the existence check on one key, query({key: value}) being
\* non-empty, is false on an empty store, true once insert_document has
\* returned the id of a document with that value under the key, and turns
\* false again only in a delete_extra call that evicts.
OneKeyFilters == { f \in Filters : Cardinality(f.keys) = 1 }

filter_exists(docs, filter) == query_results(docs, filter) # <<>>

\* doc has every key the filter lists, with the value the filter asks
Fits(doc, filter) ==
    \A key \in filter.keys : key \in DOMAIN doc /\ doc[key] = Asked(filter, key)

C16_ExistsFromInsertToEviction ==
    /\ [](documents = <<>> =>
            \A f \in OneKeyFilters : ~filter_exists(documents, f))
    /\ [](last.op = "query" /\ last.filter \in OneKeyFilters =>
            (last.ret.list # <<>>) = filter_exists(documents, last.filter))
    /\ [][InsertStep /\ last'.ret.kind = "id" =>
            \A f \in OneKeyFilters :
                Fits(documents'[Len(documents')], f) => filter_exists(documents', f)]_vars
    /\ [][\A f \in OneKeyFilters :
            filter_exists(documents, f) /\ ~filter_exists(documents', f) =>
                /\ DeleteStep /\ Len(documents) > last'.max_docs
                /\ \A i \in 1..Len(documents') : ~Fits(documents'[i], f)]_vars

C16_Witness ==
    /\ last.op = "query" /\ last.filter.keys = {"text"} /\ last.filter.text = 2
    /\ Len(last.ret.list) = 1 /\ last.ret.list[1].id = 3
    /\ Len(documents) = 2 /\ documents[1].text = 1 /\ returned = {1, 2, 3}

\* ------------------------------------------------------------------ C17
\* C17: query(filter) returns, in insertion order, exactly the stored
\* documents that have every key of the filter with the value asked; a
\* document without a listed key is not returned, and the empty filter
\* returns every document.
C17_QueryReturnsExactMatches ==
    last.op = "query" /\ last.ret.kind = "list" =>
        LET results == last.ret.list IN
        /\ \A i \in 1..Len(documents) :
              Fits(documents[i], last.filter)
                 <=> \E j \in 1..Len(results) : results[j] = documents[i]
        /\ \A j \in 1..Len(results) :
              \E i \in 1..Len(documents) : documents[i] = results[j]
        /\ \A j, k \in 1..Len(results) :
              j < k => \E i, l \in 1..Len(documents) :
                          i < l /\ documents[i] = results[j] /\ documents[l] = results[k]
        /\ last.filter.keys = {} => results = documents
        /\ "link" \in last.filter.keys => results = <<>>

C17_Witness ==
    /\ last.op = "query" /\ last.filter.keys = {"text", "timestamp"}
    /\ Len(documents) = 3 /\ Len(last.ret.list) = 2
    /\ last.ret.list[1] = documents[1] /\ last.ret.list[2] = documents[3]

\* ------------------------------------------------------------------ C18
\* C18: a document leaves the store only in a delete_extra call made with
\* more than max_docs documents in the store, which leaves max_docs of
\* them; insert_document, search_similar, query, a delete_extra that evicts
\* nothing and the rebuild, failed embeddings or not, remove nothing, and
\* no call changes a document that stays.
StoredBefore(doc) == \E i \in 1..Len(documents) : documents[i] = doc

C18_OnlyEvictionRemoves ==
    [][/\ (\E i \in 1..Len(documents) : documents[i].id \notin DocIds(documents'))
            => /\ DeleteStep /\ Len(documents) > last'.max_docs
               /\ Len(documents') = last'.max_docs
       /\ \A j \in 1..Len(documents') :
             \/ StoredBefore(documents'[j])
             \/ InsertStep /\ j = Len(documents') /\ last'.ret.kind # "none"]_vars

C18_Witness ==
    /\ last.op = "delete_extra" /\ last.max_docs = 2 /\ last.outcome = "some_failed"
    /\ Len(documents) = 2 /\ ntotal = 0 /\ Cardinality(returned) = 3

\* ------------------------------------------------------------------ C19
\* C19: a document is stored with the timestamp its caller gave, and with
\* the insertion time when the caller gave none or gave null: no stored
\* document has a null timestamp.
C19_NullTimestampBecomesInsertionTime ==
    \A i \in 1..Len(documents) : documents[i].timestamp # NoneTs

\* ------------------------------------------------------------------ C20
\* C20: with two instances over the same files nothing is locked and the
\* last writer wins: a save writes the memory of the instance that saves
\* and nothing else, so the snapshot loses what only the other instance
\* holds, and the other instance's memory is not brought up to date.
C20_LastWriterWins ==
    [][InsertStep /\ last'.ret.kind = "id" /\ last'.saved = "ok" =>
         /\ DocIds(documents_file'.documents) = DocIds(documents) \cup {last'.ret.id}
         /\ Len(index_file'.vectors) = Len(faiss_index) + 1
         /\ other' = other]_vars

\* a snapshot, written without error when no save has ever failed, that
\* lacks a document the other instance inserted, was given the id of and
\* still holds
C20_Witness ==
    /\ last.op = "insert" /\ last.saved = "ok" /\ save_failures = 0
    /\ other.constructed
    /\ \E id \in returned :
          /\ id \in DocIds(other.documents)
          /\ id \notin DocIds(documents_file.documents)
          /\ id \notin DOMAIN documents_file.doc_id_to_index

\* ------------------------------------------------------------------ C21
\* C21: a delete_extra call that evicts and whose re-embeddings all succeed
\* leaves an index rebuilt from nothing over exactly the documents that
\* stay: ntotal = number of documents = max_docs, doc_id_to_index has
\* exactly their ids, the i-th document in insertion order is at position
\* i-1 with the vector of its text, and the provider was asked once for
\* each of them.
C21_RebuildCoversSurvivors ==
    [][DeleteStep /\ Len(documents) > last'.max_docs /\ last'.outcome = "ok" =>
         /\ Len(faiss_index') = Len(documents')
         /\ Len(documents') = last'.max_docs
         /\ DOMAIN doc_id_to_index' = DocIds(documents')
         /\ \A i \in 1..Len(documents') :
               /\ doc_id_to_index'[documents'[i].id] = i - 1
               /\ faiss_index'[i] = EmbedText(documents'[i].text)
         /\ last'.calls = Len(documents')]_vars

\* three documents stored with t1 < t2 < t3, then delete_extra(2)
C21_Witness ==
    /\ last.op = "delete_extra" /\ last.max_docs = 2 /\ last.outcome = "ok"
    /\ returned = {1, 2, 3} /\ DocIds(documents) = {2, 3}
    /\ documents[1].timestamp = Dt(2) /\ documents[2].timestamp = Dt(3)
    /\ ntotal = 2 /\ last.calls = 2
    /\ doc_id_to_index[2] = 0 /\ doc_id_to_index[3] = 1

\* ------------------------------------------------------------------ C25
\* C25: from an empty cache on, after any insert_document and delete_extra
\* calls and whatever the provider answers, every id of doc_id_to_index is
\* the id of a stored document and ntotal = |doc_id_to_index| <=
\* |documents|; doc_id_to_index gets to have fewer ids than there are
\* documents only in a rebuild in which a re-embedding failed.
Indexed == Cardinality(DOMAIN doc_id_to_index)

C25_IndexedAreStored ==
    /\ [](/\ DOMAIN doc_id_to_index \subseteq DocIds(documents)
          /\ ntotal = Indexed
          /\ Indexed <= Len(documents))
    /\ [][Indexed = Len(documents)
            /\ Cardinality(DOMAIN doc_id_to_index') < Len(documents')
          => last'.op = "delete_extra" /\ last'.outcome = "some_failed"]_vars

\* ------------------------------------------------------------------ C26
\* C26: a stored document that is not in doc_id_to_index, as one whose
\* re-embedding failed in a rebuild, is in no list search_similar returns;
\* query returns it when it fits the filter; delete_extra counts it and
\* orders it by its timestamp like any other document; and a rebuild whose
\* request for it gives a vector puts it back into doc_id_to_index.
Unindexed(doc) == doc.id \notin DOMAIN doc_id_to_index

C26_UnindexedDocument ==
    /\ [](last.op = "search_similar" /\ last.ret.kind = "list" =>
            \A j \in 1..Len(last.ret.list) : ~Unindexed(last.ret.list[j].doc))
    /\ [](last.op = "query" /\ last.ret.kind = "list" =>
            \A i \in 1..Len(documents) :
                Unindexed(documents[i]) /\ Fits(documents[i], last.filter) =>
                    \E j \in 1..Len(last.ret.list) : last.ret.list[j] = documents[i])
    /\ [][DeleteStep =>
            /\ Len(documents') = Min(Len(documents), last'.max_docs)
            /\ Len(documents) > last'.max_docs =>
                  /\ DistinctTimestamps(documents) =>
                        documents' = MostRecent(documents, last'.max_docs)
                  /\ \A i \in 1..Len(documents') :
                        i \in DOMAIN last'.outs /\ last'.outs[i] = "ok" =>
                            documents'[i].id \in DOMAIN doc_id_to_index']_vars

\* three documents were indexed by their inserts, a rebuild has dropped one
\* of the two that stay, and a search returns the other one only
C26_Witness ==
    /\ last.op = "search_similar" /\ last.ret.kind = "list"
    /\ returned = {1, 2, 3} /\ Len(documents) = 2 /\ ntotal = 1
    /\ Len(last.ret.list) = 1
    /\ last.ret.list[1].doc.text = 2 /\ last.ret.list[1].distance = 1
    /\ \E i \in 1..2 : Unindexed(documents[i]) /\ documents[i].text = 1

\* ------------------------------------------------------------------ C27
\* C27: every save writes the whole in-memory state, so a save that ends
\* without error, also the first one after saves that failed and left the
\* files behind or unreadable, leaves the two files equal to the index,
\* the documents and doc_id_to_index in memory.
Synced ==
    /\ index_file = IndexBlob(faiss_index)
    /\ documents_file = DocumentsJson(documents, doc_id_to_index)

C27_SuccessfulSaveResyncs ==
    [][(InsertStep \/ DeleteStep) /\ last'.saved = "ok" =>
         /\ Synced'
         /\ DocIds(documents_file'.documents) = DocIds(documents')
         /\ DOMAIN documents_file'.doc_id_to_index = DOMAIN doc_id_to_index'
         /\ Len(index_file'.vectors) = Len(faiss_index')]_vars

\* a save failed during one of three inserts and the save of the third did
\* not: the files hold all three documents
C27_Witness ==
    /\ last.op = "insert" /\ last.saved = "ok" /\ save_failures = 1
    /\ returned = {1, 2, 3} /\ Len(documents) = 3 /\ ntotal = 3
    /\ Synced
    /\ DocIds(documents_file.documents) = {1, 2, 3}

\* ------------------------------------------------------------------ C28
\* C28: delete_extra orders all the documents before it removes any: when
\* the store holds more than max_docs documents and two of their
\* timestamps cannot be compared, the call raises and the documents,
\* doc_id_to_index, the index and the two files are what they were, and
\* the provider was asked for nothing.
Unorderable(docs) ==
    \E i, j \in 1..Len(docs) :
        i # j /\ ~Comparable(docs[i].timestamp, docs[j].timestamp)

C28_SortFailureRemovesNothing ==
    [][DeleteStep /\ Len(documents) > last'.max_docs /\ Unorderable(documents) =>
         /\ last'.ret = RetRaised
         /\ last'.calls = 0
         /\ UNCHANGED <<documents, doc_id_to_index, faiss_index,
                        index_file, documents_file>>]_vars

\* a text that is no ISO date, kept as text by the load, next to an instant
C28_Witness ==
    /\ last.op = "delete_extra" /\ last.ret = RetRaised /\ last.max_docs = 1
    /\ Len(documents) = 2 /\ ntotal = 2
    /\ documents[1].timestamp = Str(0) /\ documents[2].timestamp = Dt(2)
    /\ Synced

\* --------------------------------------------------------- runs
\* the step is a run of ContentMaker
RunStep == last'.op = "run"

\* the calls of a trace that insert, summarise or publish an item
ItemCalls == {"create", "news_processor.run", "publish"}

IsItemCall(c) == c.call \in ItemCalls

\* the run whose trace this is inserted, summarised or published url
Processed(trace, url) ==
    \E i \in 1..Len(trace) : IsItemCall(trace[i]) /\ trace[i].arg = url

\* ------------------------------------------------------------------ C22
\* C22: in a run, every create has the has_url of the same url right
\* before it; a url that is in the store when the run starts is not
\* inserted, summarised or published by it; and so no two documents of the
\* store have the same url, after any number of runs.
C22_StoredUrlIsSkipped ==
    /\ [](last.op = "run" =>
            \A i \in 1..Len(last.trace) :
                last.trace[i].call = "create" =>
                    /\ i > 1
                    /\ last.trace[i - 1].call = "has_url"
                    /\ last.trace[i - 1].arg = last.trace[i].arg)
    /\ [][RunStep =>
            \A u \in Urls : has_url(documents, u) => ~Processed(last'.trace, u)]_vars
    /\ [](\A i, j \in 1..Len(documents) :
            i # j => documents[i].link # documents[j].link)

\* a list whose first item is stored and whose second is not: the first is
\* skipped and the second inserted and published
C22_Witness ==
    /\ last.op = "run" /\ last.ret = RetNone
    /\ last.polls = << <<1, 2>> >>
    /\ last.trace[2] = Called("has_url", 1, 0, TRUE)
    /\ last.trace[3] = Called("has_url", 2, 0, TRUE)
    /\ last.trace[4] = Called("create", 2, 0, TRUE)
    /\ has_url(documents, 2) /\ history.published = {1, 2}

\* ------------------------------------------------------------------ C23
\* C23: a run inserts, summarises and publishes at most one item, the
\* first item of the polled list whose url is not in the store: one create
\* at most, one summary at most, each publisher given it once at most; and
\* the publish to the last publisher is the last call of the run.
CallsTo(trace, call) == { i \in 1..Len(trace) : trace[i].call = call }

C23_OneItemPerRun ==
    [][RunStep =>
         LET trace == last'.trace
             news  == last'.polls[Len(last'.polls)]
         IN
         /\ Cardinality(CallsTo(trace, "create")) <= 1
         /\ Cardinality(CallsTo(trace, "news_processor.run")) <= 1
         /\ \A i, j \in CallsTo(trace, "publish") : i # j => trace[i].to # trace[j].to
         /\ Len(documents') <= Len(documents) + 1
         /\ \A i \in 1..Len(trace) :
               IsItemCall(trace[i]) =>
                  \E k \in 1..Len(news) :
                      /\ news[k] = trace[i].arg
                      /\ ~has_url(documents, news[k])
                      /\ \A j \in 1..(k - 1) : has_url(documents, news[j])
         /\ \A i \in CallsTo(trace, "publish") :
               trace[i].to = MaxPublishers => i = Len(trace)
         /\ \A i \in CallsTo(trace, "create") :
               \A j \in (i + 1)..Len(trace) : trace[j].call \notin {"poll", "has_url"}]_vars

\* two items polled, neither of them stored: the first goes to every
\* publisher, the second is left for a later run
C23_Witness ==
    /\ last.op = "run" /\ last.ret = RetNone
    /\ last.polls = << <<>>, <<2, 1>> >>
    /\ Len(last.trace) = 6 + MaxPublishers
    /\ last.trace[Len(last.trace)] = Called("publish", 2, MaxPublishers, TRUE)
    /\ has_url(documents, 2) /\ ~has_url(documents, 1)
    /\ history.published = {2}

\* ------------------------------------------------------------------ C24
\* C24: in a run every create is followed at once by evict_excess with the
\* bound, and between runs the store holds no more documents than the
\* bound, whatever the aggregators give and however many runs there were.
C24_StoreIsBounded ==
    /\ [](Len(documents) <= MaxStored)
    /\ [](last.op = "run" =>
            \A i \in CallsTo(last.trace, "create") :
                /\ i < Len(last.trace)
                /\ last.trace[i + 1] = Called("evict_excess", MaxStored, 0, TRUE))

\* every url has been stored at some time and the store is at its bound
C24_Witness ==
    /\ last.op = "run" /\ CallsTo(last.trace, "create") # {}
    /\ history.created = Urls
    /\ Len(documents) = MaxStored

\* ------------------------------------------------------------------ C29
\* C29: a run polls the aggregators in order up to the first whose list is
\* not empty and no further; when every item of that list is in the store,
\* the run inserts, summarises and publishes nothing and returns.
C29_StopsAtFirstNonEmptyPoll ==
    [][RunStep =>
         LET trace == last'.trace
             n     == Len(last'.polls)
         IN
         /\ n >= 1
         /\ Cardinality(CallsTo(trace, "poll")) = n
         /\ \A a \in 1..n : trace[a] = Called("poll", a, 0, TRUE)
         /\ \A a \in 1..(n - 1) : last'.polls[a] = <<>>
         /\ n < MaxAggregators => last'.polls[n] # <<>>
         /\ (\A i \in 1..Len(last'.polls[n]) : has_url(documents, last'.polls[n][i])) =>
               /\ \A i \in 1..Len(trace) : ~IsItemCall(trace[i])
               /\ last'.ret = RetNone
               /\ UNCHANGED <<documents, history>>]_vars

\* the first aggregator gives two items that are both stored: nothing is
\* published and the second aggregator is not polled
C29_Witness ==
    /\ last.op = "run" /\ last.ret = RetNone
    /\ Len(last.polls) = 1 /\ Len(last.polls[1]) = 2
    /\ Len(last.trace) = 3
    /\ last.trace[2].call = "has_url" /\ last.trace[3].call = "has_url"
    /\ Len(documents) = 1

\* ------------------------------------------------------------------ C30
\* C30 as claimed: a run calls create and evict_excess for an item before
\* it summarises and publishes it, so an item that some run has stored,
\* whether that run then raised or not, is not inserted, summarised or
\* published by any later run.
CreatedBeforeUse(trace) ==
    \A i \in 1..Len(trace) :
        trace[i].call \in {"news_processor.run", "publish"} =>
            \E j \in 1..(i - 2) :
                /\ trace[j].call = "create" /\ trace[j].arg = trace[i].arg
                /\ trace[j + 1].call = "evict_excess"

C30_InsertedItemIsNeverPublishedAgain ==
    /\ [](last.op = "run" => CreatedBeforeUse(last.trace))
    /\ [][RunStep =>
            \A u \in history.created : ~Processed(last'.trace, u)]_vars

\* C30 as amended: a run calls create and evict_excess for an item before
\* it summarises and publishes it, and what they did to the store stands
\* when the summarizer or a publisher raises; an item that some run has
\* stored is not inserted, summarised or published by a later run for as
\* long as its record is in the store.
C30_StoredItemIsSkippedAfterFailure ==
    /\ [](last.op = "run" => CreatedBeforeUse(last.trace))
    /\ [][RunStep =>
            \A i \in CallsTo(last'.trace, "create") :
                last'.trace[i].ok =>
                    \E date \in Instants :
                        documents' = evict_excess(create(documents, last'.trace[i].arg,
                                                         date, "ok"),
                                                  last'.max_docs)]_vars
    /\ [][RunStep =>
            \A u \in history.created :
                has_url(documents, u) => ~Processed(last'.trace, u)]_vars

\* url 1 was stored by a run that raised before any publisher was given it,
\* and the run after that one has skipped it
C30_Witness ==
    /\ last.op = "run" /\ last.ret = RetNone
    /\ last.polls = << <<1>> >>
    /\ last.trace = <<Called("poll", 1, 0, TRUE), Called("has_url", 1, 0, TRUE)>>
    /\ 1 \in history.created /\ history.published = {}
    /\ has_url(documents, 1)

====
